---- MODULE Spec2Model ----
(***************************************************************************)
(* Model of wizards-bot: the URL substitution engine (url.ts) and the /nit *)
(* slash-command handler (index.tsx).                                      *)
(*                                                                         *)
(* Strings are sequences of one-character strings, so that the regular     *)
(* expression and JavaScript's URL parser/serializer can be modelled       *)
(* character by character.                                                 *)
(***************************************************************************)
EXTENDS Integers, Sequences, FiniteSets, TLC

VARIABLES text, out, log, lastIndex, req, resp, pc, calls, hist

vars == <<text, out, log, lastIndex, req, resp, pc, calls, hist>>

-----------------------------------------------------------------------------
(* Character classes of URL_REGEX.                                         *)

LowerLetters ==
  <<"a","b","c","d","e","f","g","h","i","j","k","l","m",
    "n","o","p","q","r","s","t","u","v","w","x","y","z">>

UpperLetters ==
  <<"A","B","C","D","E","F","G","H","I","J","K","L","M",
    "N","O","P","Q","R","S","T","U","V","W","X","Y","Z">>

Letters == {LowerLetters[i] : i \in 1..26} \cup {UpperLetters[i] : i \in 1..26}

Digits == {"0","1","2","3","4","5","6","7","8","9"}

\* \w
WordChars == Letters \cup Digits \cup {"_"}

\* [\w.-]
HostClass == WordChars \cup {".", "-"}

\* [\w\-\._~:/?#[\]@!\$&'\(\)\*\+,;=.]
PathClass ==
  WordChars \cup {"-", ".", "_", "~", ":", "/", "?", "#", "[", "]", "@", "!",
                  "$", "&", "'", "(", ")", "*", "+", ",", ";", "="}

-----------------------------------------------------------------------------
(* Sequence helpers.                                                       *)

RECURSIVE Flatten(_)
Flatten(ss) == IF ss = <<>> THEN <<>> ELSE Head(ss) \o Flatten(Tail(ss))

\* s.slice(i - 1), 1-based
From(s, i) == SubSeq(s, i, Len(s))

\* first position >= i of a character of C, or Len(s) + 1
RECURSIVE FirstOf(_, _, _)
FirstOf(s, i, C) ==
  IF i > Len(s) THEN Len(s) + 1
  ELSE IF s[i] \in C THEN i ELSE FirstOf(s, i + 1, C)

\* last position <= i of character c, or 0
RECURSIVE LastOf(_, _, _)
LastOf(s, i, c) ==
  IF i < 1 THEN 0 ELSE IF s[i] = c THEN i ELSE LastOf(s, i - 1, c)

\* String.prototype.endsWith
EndsWith(s, suffix) ==
  /\ Len(suffix) <= Len(s)
  /\ SubSeq(s, Len(s) - Len(suffix) + 1, Len(s)) = suffix

\* s.startsWith(lit, i - 1), 1-based
IsAt(s, i, lit) ==
  /\ i + Len(lit) - 1 <= Len(s)
  /\ SubSeq(s, i, i + Len(lit) - 1) = lit

\* the pieces of s between occurrences of c (String.prototype.split)
RECURSIVE Split(_, _)
Split(s, c) ==
  LET k == FirstOf(s, 1, {c})
  IN  IF k > Len(s) THEN <<s>>
      ELSE <<SubSeq(s, 1, k - 1)>> \o Split(From(s, k + 1), c)

\* decimal digits of a natural number
RECURSIVE Decimal(_)
Decimal(n) ==
  LET d == <<"0","1","2","3","4","5","6","7","8","9">>[(n % 10) + 1]
  IN  IF n < 10 THEN <<d>> ELSE Decimal(n \div 10) \o <<d>>

DigitValue(c) ==
  CASE c = "0" -> 0 [] c = "1" -> 1 [] c = "2" -> 2 [] c = "3" -> 3
    [] c = "4" -> 4 [] c = "5" -> 5 [] c = "6" -> 6 [] c = "7" -> 7
    [] c = "8" -> 8 [] c = "9" -> 9

\* value of a digit string, capped above 65535 so that it stays small
RECURSIVE Number(_, _)
Number(s, acc) ==
  IF s = <<>> THEN acc
  ELSE IF acc > 65535 THEN acc
  ELSE Number(Tail(s), acc * 10 + DigitValue(Head(s)))

-----------------------------------------------------------------------------
(* String literals of the program.                                         *)

HTTPS == <<"h","t","t","p","s",":","/","/">>
HTTP == <<"h","t","t","p",":","/","/">>
TWITTER_COM == <<"t","w","i","t","t","e","r",".","c","o","m">>
MOBILE_TWITTER_COM == <<"m","o","b","i","l","e",".">> \o TWITTER_COM
MEDIUM_COM == <<"m","e","d","i","u","m",".","c","o","m">>
NITTER_NET == <<"n","i","t","t","e","r",".","n","e","t">>
SCRIBE_RIP == <<"s","c","r","i","b","e",".","r","i","p">>
SOURCE_OPEN == <<" ","(","[","s","o","u","r","c","e","]","(">>
SOURCE_CLOSE == <<")",")">>

-----------------------------------------------------------------------------
(* URL_REGEX, matched as a backtracking matcher does: every quantifier is  *)
(* greedy and gives back one character at a time.  A match operator yields *)
(* the position after the match, or 0 when there is no match.              *)

\* length of the run of characters of C that starts at i
RECURSIVE RunLen(_, _, _)
RunLen(t, i, C) ==
  IF i <= Len(t) /\ t[i] \in C THEN 1 + RunLen(t, i + 1, C) ELSE 0

\* (?:https?:\/\/)
SchemeEnd(t, i) ==
  IF IsAt(t, i, HTTPS) THEN i + Len(HTTPS)
  ELSE IF IsAt(t, i, HTTP) THEN i + Len(HTTP)
  ELSE 0

\* the last term with "*" for "+": no character is needed
MatchTailStar(t, i) == i + RunLen(t, i, PathClass)

\* [\w\-\._~:/?#[\]@!\$&'\(\)\*\+,;=.]+  the last term: nothing follows it
MatchTail(t, i) ==
  LET k == RunLen(t, i, PathClass)
  IN  IF k >= 1 THEN i + k ELSE 0

\* (?:\.[\w\.-]+)+ and the rest, from position i
RECURSIVE MatchGroups(_, _)
RECURSIVE TryGroupLen(_, _, _)
MatchGroups(t, i) ==
  IF i <= Len(t) /\ t[i] = "."
  THEN TryGroupLen(t, i + 1, RunLen(t, i + 1, HostClass))
  ELSE 0

\* the group's [\w\.-]+ takes k characters, then k - 1, ...; after a group
\* another iteration of the group is tried before the last term
TryGroupLen(t, j, k) ==
  IF k < 1 THEN 0
  ELSE LET again == MatchGroups(t, j + k)
           r == IF again # 0 THEN again ELSE MatchTail(t, j + k)
       IN  IF r # 0 THEN r ELSE TryGroupLen(t, j, k - 1)

\* the host with "*" for "+" on its group: no dot is needed
RECURSIVE TryHostLenNoDot(_, _, _)
TryHostLenNoDot(t, i, k) ==
  IF k < 1 THEN 0
  ELSE LET g == MatchGroups(t, i + k)
           r == IF g # 0 THEN g ELSE MatchTail(t, i + k)
       IN  IF r # 0 THEN r ELSE TryHostLenNoDot(t, i, k - 1)

\* [\w.-]+ takes k characters, then k - 1, ...
RECURSIVE TryHostLen(_, _, _)
TryHostLen(t, i, k) ==
  IF k < 1 THEN 0
  ELSE LET r == MatchGroups(t, i + k)
       IN  IF r # 0 THEN r ELSE TryHostLen(t, i, k - 1)

\* URL_REGEX anchored at position i
MatchHere(t, i) ==
  LET h == SchemeEnd(t, i)
  IN  IF h = 0 THEN 0 ELSE TryHostLen(t, h, RunLen(t, h, HostClass))

-----------------------------------------------------------------------------
(* RegExp.prototype.exec of the global regex, and the loop of              *)
(* String.prototype.replace that collects every match before any           *)
(* replacer is called.  lastIndex is 0-based, positions are 1-based.       *)

\* first position >= i where the regex matches, or 0
RECURSIVE Search(_, _)
Search(t, i) ==
  IF i > Len(t) THEN 0
  ELSE IF MatchHere(t, i) # 0 THEN i ELSE Search(t, i + 1)

\* a match from position s to position e - 1, or none when s is 0
MatchResult(s, e) ==
  IF s = 0
  THEN [found |-> FALSE, from |-> 0, to |-> 0, lastIndex |-> 0]
  ELSE [found |-> TRUE, from |-> s, to |-> e - 1, lastIndex |-> e - 1]

MatchAt(t, s) == MatchResult(s, IF s = 0 THEN 0 ELSE MatchHere(t, s))

\* exec: starts at lastIndex; a match sets lastIndex to its end, a failure
\* sets lastIndex to 0
Exec(t, li) == MatchAt(t, Search(t, li + 1))

\* the results replace collects: exec is repeated until it fails
RECURSIVE Collect(_, _)
RECURSIVE CollectFrom(_, _)
Collect(t, li) == CollectFrom(t, Exec(t, li))

\* m is the result of the last exec
CollectFrom(t, m) ==
  IF m.found THEN <<m>> \o Collect(t, m.lastIndex) ELSE <<>>

\* replace sets lastIndex to 0 before it collects
ReplaceStart(li) == 0

\* the last exec of the collecting loop has failed
ReplaceEnd(ms) == 0

-----------------------------------------------------------------------------
(* new URL(url0) for a string URL_REGEX matched: the WHATWG URL parser for *)
(* the special schemes http and https.  The inputs of the model hold no    *)
(* "%", no "[" and no digit in a host label, so percent-decoding and IPv6  *)
(* and IPv4 hosts are left out.                                            *)

\* the host parser lower-cases a domain
ToLower(c) ==
  IF \E i \in 1..26 : UpperLetters[i] = c
  THEN LowerLetters[CHOOSE i \in 1..26 : UpperLetters[i] = c]
  ELSE c

LowerCase(s) == [i \in 1..Len(s) |-> ToLower(s[i])]

\* forbidden host code points that the path class of URL_REGEX admits and
\* that do not end the authority
ForbiddenHostChars == {"[", "]"}

\* userinfo percent-encode set, for the characters of the path class
EncodeUserinfo(c) ==
  CASE c = ":" -> <<"%","3","A">>
    [] c = "@" -> <<"%","4","0">>
    [] c = "/" -> <<"%","2","F">>
    [] c = ";" -> <<"%","3","B">>
    [] c = "=" -> <<"%","3","D">>
    [] c = "[" -> <<"%","5","B">>
    [] c = "]" -> <<"%","5","D">>
    [] OTHER -> <<c>>

\* special-query percent-encode set, for the characters of the path class
EncodeQuery(c) == IF c = "'" THEN <<"%","2","7">> ELSE <<c>>

RECURSIVE EncodeAll(_, _)
EncodeAll(s, q) ==
  IF s = <<>> THEN <<>>
  ELSE (IF q THEN EncodeQuery(Head(s)) ELSE EncodeUserinfo(Head(s)))
         \o EncodeAll(Tail(s), q)

DefaultPort(scheme) == IF scheme = "https" THEN 443 ELSE 80

\* path state: "." and ".." segments
DotSegments(segs) ==
  LET F[i \in 0..Len(segs)] ==
        IF i = 0 THEN <<>>
        ELSE LET p == F[i - 1]
                 s == segs[i]
                 last == (i = Len(segs))
             IN  IF s = <<".", ".">>
                 THEN (IF p = <<>> THEN p ELSE SubSeq(p, 1, Len(p) - 1))
                        \o (IF last THEN << <<>> >> ELSE <<>>)
                 ELSE IF s = <<".">>
                 THEN p \o (IF last THEN << <<>> >> ELSE <<>>)
                 ELSE Append(p, s)
  IN  F[Len(segs)]

\* "/" + segments joined by "/"
RECURSIVE JoinPath(_)
JoinPath(segs) ==
  IF segs = <<>> THEN <<>> ELSE <<"/">> \o Head(segs) \o JoinPath(Tail(segs))

\* the serialized path of the path text p: p is empty or begins with "/"
ParsePath(p) ==
  JoinPath(DotSegments(Split(IF p = <<>> THEN p ELSE Tail(p), "/")))

Failure == [ok |-> FALSE]

ParseUrl(u) ==
  LET scheme == IF IsAt(u, 1, HTTPS) THEN "https" ELSE "http"
      rest == From(u, SchemeEnd(u, 1))
      authEnd == FirstOf(rest, 1, {"/", "?", "#"})
      authority == SubSeq(rest, 1, authEnd - 1)
      after == From(rest, authEnd)
      at == LastOf(authority, Len(authority), "@")
      cred == SubSeq(authority, 1, at - 1)
      hostport == From(authority, at + 1)
      pw == FirstOf(cred, 1, {":"})
      colon == FirstOf(hostport, 1, {":"})
      host == SubSeq(hostport, 1, colon - 1)
      portText == From(hostport, colon + 1)
      portNum == Number(portText, 0)
      hash == FirstOf(after, 1, {"#"})
      beforeHash == SubSeq(after, 1, hash - 1)
      qm == FirstOf(beforeHash, 1, {"?"})
  IN  IF host = <<>> THEN Failure
      ELSE IF \E i \in 1..Len(host) : host[i] \in ForbiddenHostChars THEN Failure
      ELSE IF \E i \in 1..Len(portText) : portText[i] \notin Digits THEN Failure
      ELSE IF portNum > 65535 THEN Failure
      ELSE [ok |-> TRUE,
            scheme |-> scheme,
            username |-> EncodeAll(SubSeq(cred, 1, pw - 1), FALSE),
            password |-> EncodeAll(From(cred, pw + 1), FALSE),
            hostname |-> LowerCase(host),
            port |-> IF portText = <<>> \/ portNum = DefaultPort(scheme)
                     THEN -1 ELSE portNum,
            pathname |-> ParsePath(SubSeq(beforeHash, 1, qm - 1)),
            hasQuery |-> qm <= Len(beforeHash),
            query |-> EncodeAll(From(beforeHash, qm + 1), TRUE),
            hasFragment |-> hash <= Len(after),
            fragment |-> From(after, hash + 1)]

\* the host getter: the host name, and ":" and the port when there is one
UrlHost(url) ==
  url.hostname \o (IF url.port = -1 THEN <<>> ELSE <<":">> \o Decimal(url.port))

\* a rewrite that builds the new URL from host and path alone
SetHostDropRest(url, h) ==
  [url EXCEPT !.hostname = h, !.hasQuery = FALSE, !.query = <<>>,
              !.hasFragment = FALSE, !.fragment = <<>>]

\* the host setter with a host name that has no port: the port is kept
SetHost(url, h) == [url EXCEPT !.hostname = h]

\* the href getter, which toString and template literals use
Href(url) ==
  (IF url.scheme = "https" THEN HTTPS ELSE HTTP)
    \o (IF url.username # <<>> \/ url.password # <<>>
        THEN url.username
               \o (IF url.password # <<>> THEN <<":">> \o url.password ELSE <<>>)
               \o <<"@">>
        ELSE <<>>)
    \o UrlHost(url)
    \o url.pathname
    \o (IF url.hasQuery THEN <<"?">> \o url.query ELSE <<>>)
    \o (IF url.hasFragment THEN <<"#">> \o url.fragment ELSE <<>>)

-----------------------------------------------------------------------------
(* url.ts: the replacer callbacks.  A callback yields [threw, val]: new URL *)
(* throws a TypeError on a string it cannot parse, and no callback catches *)
(* it.                                                                     *)

Threw == [threw |-> TRUE, val |-> <<>>]
Returned(s) == [threw |-> FALSE, val |-> s]

\* url.host.endsWith("twitter.com")
IsTwitterHost(h) == EndsWith(h, TWITTER_COM)

\* url.host === "medium.com": subdomains are missed
IsMediumHostExact(h) == h = MEDIUM_COM

\* url.host.endsWith("medium.com")
IsMediumHost(h) == EndsWith(h, MEDIUM_COM)

\* `${url} ([source](${url}))`: the annotation names the rewritten URL
AnnotatedWithRewritten(url, url0) ==
  Href(url) \o SOURCE_OPEN \o Href(url) \o SOURCE_CLOSE

\* `${url} ([source](${url0}))`
Annotated(url, url0) == Href(url) \o SOURCE_OPEN \o url0 \o SOURCE_CLOSE

\* the body of maybeReplaceUrl, url being new URL(url0)
maybeReplaceParsed(url, url0) ==
  IF ~url.ok THEN Threw
  ELSE IF IsTwitterHost(UrlHost(url))
  THEN Returned(Annotated(SetHost(url, NITTER_NET), url0))
  ELSE IF IsMediumHost(UrlHost(url))
  THEN Returned(Annotated(SetHost(url, SCRIBE_RIP), url0))
  ELSE Returned(url0)

maybeReplaceUrl(url0) == maybeReplaceParsed(ParseUrl(url0), url0)

\* the body of twitterUrlToNitterUrl, url being new URL(url0), and the
\* toString of its caller
twitterParsedToNitter(url) ==
  IF ~url.ok THEN Threw
  ELSE IF UrlHost(url) = TWITTER_COM \/ UrlHost(url) = MOBILE_TWITTER_COM
  THEN Returned(Href(SetHost(url, NITTER_NET)))
  ELSE Returned(Href(url))

\* the replacer of the handler's twitterToNitter:
\* (url) => twitterUrlToNitterUrl(url).toString()
twitterUrlToNitterUrl(url0) == twitterParsedToNitter(ParseUrl(url0))

-----------------------------------------------------------------------------
(* text.replace(URL_REGEX, fn)                                             *)

\* the replacer function a caller hands to replace, by name
CallReplacer(fn, url0) ==
  IF fn = "maybeReplaceUrl" THEN maybeReplaceUrl(url0)
  ELSE twitterUrlToNitterUrl(url0)

\* one replacer call: the span, the matched substring, what the call gave
CallRecord(m, url0, r) ==
  [from |-> m.from, to |-> m.to, url0 |-> url0, threw |-> r.threw, val |-> r.val]

CallOn(m, url0, fn) == CallRecord(m, url0, CallReplacer(fn, url0))

\* the replacer calls replace makes, in order, up to the first that throws
RECURSIVE ReplacerCalls(_, _, _)
RECURSIVE CallsFrom(_, _, _, _)
ReplacerCalls(t, ms, fn) ==
  IF ms = <<>> THEN <<>>
  ELSE CallsFrom(t, ms, fn, CallOn(Head(ms), SubSeq(t, Head(ms).from, Head(ms).to), fn))

\* c is the call for the first match of ms
CallsFrom(t, ms, fn, c) ==
  IF c.threw THEN <<c>> ELSE <<c>> \o ReplacerCalls(t, Tail(ms), fn)

\* the text with every matched span replaced by what its call returned
RECURSIVE Stitch(_, _, _)
Stitch(t, cs, pos) ==
  IF cs = <<>> THEN From(t, pos)
  ELSE SubSeq(t, pos, Head(cs).from - 1) \o Head(cs).val
         \o Stitch(t, Tail(cs), Head(cs).to + 1)

\* the last replacer call threw
LastThrew(cs) == cs # <<>> /\ cs[Len(cs)].threw

\* [threw, val, log, lastIndex]: what replace gives once the calls cs are
\* made
Replaced(t, cs, li) ==
  [threw |-> LastThrew(cs),
   val |-> IF LastThrew(cs) THEN <<>> ELSE Stitch(t, cs, 1),
   log |-> cs,
   lastIndex |-> li]

\* replace, once the matches ms are collected
ReplaceCollected(t, ms, fn) == Replaced(t, ReplacerCalls(t, ms, fn), ReplaceEnd(ms))

\* the outcome of text.replace(URL_REGEX, fn) on text t when the regex's
\* lastIndex is li
Replace(t, li, fn) == ReplaceCollected(t, Collect(t, ReplaceStart(li)), fn)

\* where a call that threw leaves lastIndex in a loop of exec
StoppedAt(cs) == IF LastThrew(cs) THEN cs[Len(cs)].to ELSE 0

\* a call that leaves lastIndex where the throwing replacer stopped it:
\* a hand-written exec loop in place of replace, with no reset
ExecLoop(t, cs) == Replaced(t, cs, StoppedAt(cs))

substituteUrlsExecLoop(t, li) ==
  ExecLoop(t, ReplacerCalls(t, Collect(t, li), "maybeReplaceUrl"))

substituteUrls(t, li) == Replace(t, li, "maybeReplaceUrl")

twitterToNitter(t, li) == Replace(t, li, "twitterUrlToNitterUrl")

-----------------------------------------------------------------------------
(* The inputs: a lead, at most MaxParts pieces, and a trail.  A digit      *)
(* comes only right after ":", so no host label holds one.                 *)

MaxParts == 3

Pieces ==
  { TWITTER_COM,
    MEDIUM_COM,
    <<"x">>,
    <<".">>,
    <<"/">>,
    <<"/", ".", ".">>,
    <<"?">>,
    <<"'">>,
    <<"#">>,
    <<":", "8">>,
    <<"@">> }

Leads == { <<>>, HTTPS, HTTP, <<"a", " ">> \o HTTPS }

\* nothing, or a second URL that no rule matches
OTHER_URL == HTTPS \o <<"x", ".", "x", "x", "/">>

Trails == { <<>>, <<" ">> \o OTHER_URL }

Texts ==
  { lead \o Flatten(ps) \o trail :
      lead \in Leads,
      ps \in UNION {[1..n -> Pieces] : n \in 0..MaxParts},
      trail \in Trails }

-----------------------------------------------------------------------------
(* State.                                                                  *)
(*   text       the argument of the last call of the rewriter              *)
(*   out        what that call gave: [kind, val], kind "none" before the   *)
(*              call, "ok" when it returned val, "throw" when it threw     *)
(*   log        the replacer calls of that call, in order                  *)
(*   lastIndex  URL_REGEX.lastIndex                                        *)
(*   pc         where the caller, or the /nit handler, stands              *)
(*   req        the request the /nit handler is serving                    *)
(*   resp       its response                                               *)
(*   calls      how often the handler has called the rewriter for req      *)
(*   hist       the calls of substituteUrls made while the server runs,    *)
(*              each with its text and its outcome                         *)

NoResult == [kind |-> "none", val |-> <<>>]

Result(r) == [kind |-> IF r.threw THEN "throw" ELSE "ok", val |-> r.val]

NoRequest == [method |-> "none"]

NoResponse == [kind |-> "none"]

Init ==
  /\ text \in Texts
  /\ out = NoResult
  /\ log = <<>>
  /\ lastIndex = 0
  /\ pc = "ready"
  /\ req = NoRequest
  /\ resp = NoResponse
  /\ calls = 0
  /\ hist = <<>>

\* substituteUrls(text)
SubstituteUrls ==
  /\ pc = "ready"
  /\ LET r == substituteUrls(text, lastIndex)
     IN  /\ out' = Result(r)
         /\ log' = r.log
         /\ lastIndex' = r.lastIndex
  /\ pc' = "done"
  /\ UNCHANGED <<text, req, resp, calls, hist>>

Next == SubstituteUrls

Spec == Init /\ [][Next]_vars

-----------------------------------------------------------------------------
(* index.tsx: the /nit handler.  A handler runs until it awaits; between   *)
(* its steps other code of the process may run, here direct calls of       *)
(* substituteUrls, which share URL_REGEX with the handler's rewriter.      *)

\* Deno.env.get("MM_SLASH_TOKEN")
TOKEN == "s3cret"

Missing == "(missing)"

Methods == {"POST", "GET"}

Authorizations == {Missing, "Token " \o TOKEN, "Token wrong", TOKEN}

\* the Content-Type header: absent, a form encoding, or another type
ContentTypes == {Missing, "application/x-www-form-urlencoded", "application/json"}

\* the text field of the form: absent (null), or a string
Null == <<"(null)">>

REWRITABLE == HTTPS \o TWITTER_COM \o <<"/", "x">>
SUBDOMAIN == HTTPS \o <<"x", ".">> \o MEDIUM_COM \o <<"/">>
UNPARSABLE == HTTPS \o TWITTER_COM \o <<"@">>
PLAIN == <<"a", " ", "b">>

FormTexts == {Null, <<>>, <<" ", "\t">>, REWRITABLE, SUBDOMAIN, UNPARSABLE}

DirectTexts == {REWRITABLE, SUBDOMAIN, UNPARSABLE, PLAIN}

Requests ==
  [method : Methods, authorization : Authorizations,
   contentType : ContentTypes, form : FormTexts]

\* the direct calls of substituteUrls the model follows
MaxCalls == 3

\* validateRequest(request, {POST: {headers: ["Authorization",
\* "Content-Type"]}}): the status of the error, or 0 when there is none
validateRequest(r) ==
  IF r.method # "POST" THEN 405
  ELSE IF r.authorization = Missing \/ r.contentType = Missing THEN 400
  ELSE 0

\* authorization === TOKEN: the "Token " prefix is not asked for
verifyTokenNoPrefix(r) == r.authorization = TOKEN

verifyToken(r) == r.authorization = "Token " \o TOKEN

\* request.formData() rejects unless the body is a form
IsForm(r) == r.contentType = "application/x-www-form-urlencoded"

\* formText.match(/^\s*$/)
IsBlank(s) == \A i \in 1..Len(s) : s[i] \in {" ", "\t", "\n", "\r"}

\* typeof formText === "string" && !formText.match(/^\s*$/)
HasText(r) == r.form # Null /\ ~IsBlank(r.form)

ErrorResponse(status) == [kind |-> "error", status |-> status, text |-> <<>>]

\* the handler rejected: the call of formData or of the rewriter threw
Rejected == [kind |-> "threw", status |-> 0, text |-> <<>>]

Ephemeral == [kind |-> "ephemeral", status |-> 200, text |-> <<>>]

InChannel(t) == [kind |-> "in_channel", status |-> 200, text |-> t]

InitServer ==
  /\ text = <<>>
  /\ out = NoResult
  /\ log = <<>>
  /\ lastIndex = 0
  /\ pc = "idle"
  /\ req = NoRequest
  /\ resp = NoResponse
  /\ calls = 0
  /\ hist = <<>>

\* a request arrives: nitterSlashCommand runs to await validateRequest
Receive(r) ==
  /\ pc = "idle"
  /\ req' = r
  /\ resp' = NoResponse
  /\ calls' = 0
  /\ pc' = "validating"
  /\ UNCHANGED <<text, out, log, lastIndex, hist>>

\* validateRequest has settled: the error check and the token check, then
\* await request.formData()
AfterValidate ==
  /\ pc = "validating"
  /\ IF validateRequest(req) # 0
     THEN resp' = ErrorResponse(validateRequest(req)) /\ pc' = "responded"
     ELSE IF ~verifyToken(req)
     THEN resp' = ErrorResponse(401) /\ pc' = "responded"
     ELSE resp' = resp /\ pc' = "reading"
  /\ UNCHANGED <<text, out, log, lastIndex, req, calls, hist>>

\* formData has settled: the text check, the rewriter, the response
AfterFormData ==
  /\ pc = "reading"
  /\ pc' = "responded"
  /\ IF ~IsForm(req)
     THEN resp' = Rejected /\ UNCHANGED <<lastIndex, calls>>
     ELSE IF HasText(req)
     THEN LET r == twitterToNitter(req.form, lastIndex)
          IN  /\ resp' = IF r.threw THEN Rejected ELSE InChannel(r.val)
              /\ lastIndex' = r.lastIndex
              /\ calls' = calls + 1
     ELSE resp' = Ephemeral /\ UNCHANGED <<lastIndex, calls>>
  /\ UNCHANGED <<text, out, log, req, hist>>

\* the response is sent and the handler is done
Send ==
  /\ pc = "responded"
  /\ pc' = "idle"
  /\ req' = NoRequest
  /\ resp' = NoResponse
  /\ calls' = 0
  /\ UNCHANGED <<text, out, log, lastIndex, hist>>

\* substituteUrls(t), called while the server runs
Invoke(t) ==
  /\ Len(hist) < MaxCalls
  /\ LET r == substituteUrls(t, lastIndex)
     IN  /\ hist' = Append(hist, [text |-> t, result |-> Result(r)])
         /\ lastIndex' = r.lastIndex
  /\ UNCHANGED <<text, out, log, req, resp, pc, calls>>

NextServer ==
  \/ \E r \in Requests : Receive(r)
  \/ AfterValidate
  \/ AfterFormData
  \/ Send
  \/ \E t \in DirectTexts : Invoke(t)

SpecServer == InitServer /\ [][NextServer]_vars

-----------------------------------------------------------------------------
(* Vocabulary of the properties.                                           *)

Done == pc = "done"

\* the host-match test of a mirror rule: the suffix itself or a subdomain
HostMatchesRule(h, suffix) == h = suffix \/ EndsWith(h, <<".">> \o suffix)

MatchesSomeRule(h) ==
  HostMatchesRule(h, TWITTER_COM) \/ HostMatchesRule(h, MEDIUM_COM)

\* the host of a candidate that parses
Parses(c) == ParseUrl(c.url0).ok
HostOf(c) == UrlHost(ParseUrl(c.url0))

\* the source annotation of a candidate
AnnotationOf(c) == SOURCE_OPEN \o SubSeq(text, c.from, c.to) \o SOURCE_CLOSE

\* the URL at the front of a replacement: what comes before the first space
FrontUrl(c) == SubSeq(c.val, 1, FirstOf(c.val, 1, {" "}) - 1)

\* a call changed its candidate
Rewrote(c) == ~c.threw /\ c.val # c.url0

\* where the replacement of call k starts in the output
RECURSIVE OutputPos(_)
OutputPos(k) ==
  IF k = 1 THEN log[1].from
  ELSE OutputPos(k - 1) + Len(log[k - 1].val)
         + (log[k].from - log[k - 1].to - 1)

\* the replacement of call k stands in the output at the place of its span
InOutput(k) == IsAt(out.val, OutputPos(k), log[k].val)

\* the text after the authority of a candidate: path, query and fragment
AfterAuthority(u) ==
  From(u, FirstOf(u, SchemeEnd(u, 1), {"/", "?", "#"}))

\* the authority of a candidate
AuthorityOf(u) ==
  SubSeq(u, SchemeEnd(u, 1), FirstOf(u, SchemeEnd(u, 1), {"/", "?", "#"}) - 1)

\* from the first "#" on
FragmentPart(u) == From(u, FirstOf(u, 1, {"#"}))

\* the path holds a "." or ".." segment
HasDotSegment(u) ==
  LET rest == AfterAuthority(u)
      path == SubSeq(rest, 1, FirstOf(rest, 1, {"?", "#"}) - 1)
      segs == Split(IF path = <<>> THEN path ELSE Tail(path), "/")
  IN  \E i \in 1..Len(segs) : segs[i] \in {<<".">>, <<".", ".">>}

\* the query holds a "'"
HasQuoteInQuery(u) ==
  LET rest == AfterAuthority(u)
      beforeHash == SubSeq(rest, 1, FirstOf(rest, 1, {"#"}) - 1)
      q == From(beforeHash, FirstOf(beforeHash, 1, {"?"}))
  IN  \E i \in 1..Len(q) : q[i] = "'"

\* path, query and fragment that URL serialization gives back as written
PlainRest(u) ==
  /\ AfterAuthority(u) # <<>>
  /\ Head(AfterAuthority(u)) = "/"
  /\ ~HasDotSegment(u)
  /\ ~HasQuoteInQuery(u)

\* the mirror host a replacement was given
MirrorOf(c) == IF IsTwitterHost(HostOf(c)) THEN NITTER_NET ELSE SCRIBE_RIP

-----------------------------------------------------------------------------
(* C1: a candidate whose host is twitter.com or ends with ".twitter.com"   *)
(* is replaced by a URL whose host is nitter.net, and one whose host is    *)
(* medium.com or ends with ".medium.com" by a URL whose host is            *)
(* scribe.rip; the replacement stands in the output at the candidate's     *)
(* place.                                                                  *)
C1_SuffixHostsRewritten ==
  Done =>
    \A k \in 1..Len(log) :
      LET c == log[k]
      IN  Parses(c) =>
            /\ HostMatchesRule(HostOf(c), TWITTER_COM) =>
                 /\ ~c.threw
                 /\ ParseUrl(FrontUrl(c)).ok
                 /\ UrlHost(ParseUrl(FrontUrl(c))) = NITTER_NET
                 /\ out.kind = "ok" => InOutput(k)
            /\ HostMatchesRule(HostOf(c), MEDIUM_COM) =>
                 /\ ~c.threw
                 /\ ParseUrl(FrontUrl(c)).ok
                 /\ UrlHost(ParseUrl(FrontUrl(c))) = SCRIBE_RIP
                 /\ out.kind = "ok" => InOutput(k)

\* a subdomain of medium.com was rewritten to scribe.rip, after other text
C1_Witness ==
  /\ Done
  /\ out.kind = "ok"
  /\ \E k \in 1..Len(log) :
       /\ Parses(log[k])
       /\ HostOf(log[k]) # MEDIUM_COM
       /\ HostMatchesRule(HostOf(log[k]), MEDIUM_COM)
       /\ log[k].from > 1
       /\ UrlHost(ParseUrl(FrontUrl(log[k]))) = SCRIBE_RIP

(* C2: a candidate is rewritten only if its host is a rule's suffix or a   *)
(* dot-separated subdomain of it.                                          *)
C2_OnlySuffixHostsRewritten ==
  Done =>
    \A k \in 1..Len(log) :
      Rewrote(log[k]) => MatchesSomeRule(HostOf(log[k]))

(* C3: substituteUrls never throws, and a candidate that cannot be parsed  *)
(* as a URL is left unchanged in place.                                    *)
C3_Total ==
  Done =>
    /\ out.kind = "ok"
    /\ \A k \in 1..Len(log) :
         ~Parses(log[k]) => ~log[k].threw /\ log[k].val = log[k].url0

(* C4: a rewritten URL is followed at once by " ([source](" + original +   *)
(* "))", the original being the matched substring of the input character   *)
(* for character; a candidate that is not rewritten is returned as it is,  *)
(* with no annotation.                                                     *)
C4_SourceAnnotation ==
  Done =>
    \A k \in 1..Len(log) :
      LET c == log[k]
      IN  ~c.threw =>
            /\ \/ c.val = SubSeq(text, c.from, c.to)
               \/ /\ c.val = FrontUrl(c) \o AnnotationOf(c)
                  /\ FrontUrl(c) # SubSeq(text, c.from, c.to)
                  /\ ParseUrl(FrontUrl(c)).ok
            /\ out.kind = "ok" => InOutput(k)

\* a URL with a query and a quote in it was rewritten, and a second
\* candidate of the same text was not
C4_Witness ==
  /\ Done
  /\ out.kind = "ok"
  /\ Len(log) = 2
  /\ Rewrote(log[1])
  /\ HasQuoteInQuery(log[1].url0)
  /\ ~Rewrote(log[2])
  /\ EndsWith(out.val, OTHER_URL)

(* C5: the output differs from the input only at candidate spans whose     *)
(* host matches a rule: the text outside the spans is passed through in    *)
(* order, a span whose host matches no rule is returned unchanged, the     *)
(* spans are disjoint and in left-to-right order, and a text with no       *)
(* candidate is returned as it is.                                         *)
C5_Frame ==
  (Done /\ out.kind = "ok") =>
    /\ \A k \in 1..Len(log) :
         /\ InOutput(k)
         /\ log[k].from <= log[k].to
         /\ k > 1 => log[k - 1].to < log[k].from
         /\ ~(Parses(log[k]) /\ MatchesSomeRule(HostOf(log[k])))
              => log[k].val = log[k].url0
    /\ log = <<>> => out.val = text
    /\ log # <<>> =>
         \* before the first span, between spans, after the last span
         /\ SubSeq(out.val, 1, OutputPos(1) - 1) = SubSeq(text, 1, log[1].from - 1)
         /\ \A k \in 2..Len(log) :
              SubSeq(out.val, OutputPos(k - 1) + Len(log[k - 1].val), OutputPos(k) - 1)
                = SubSeq(text, log[k - 1].to + 1, log[k].from - 1)
         /\ From(out.val, OutputPos(Len(log)) + Len(log[Len(log)].val))
              = From(text, log[Len(log)].to + 1)

\* the scheme of a candidate, with its "://"
SchemePart(u) == SubSeq(u, 1, SchemeEnd(u, 1) - 1)

StartsWithScheme(t, i) == IsAt(t, i, HTTPS) \/ IsAt(t, i, HTTP)

\* the run of host characters from position h has a dot with a host
\* character before it and one after it
HasInternalDot(t, h) ==
  \E p \in 2..(RunLen(t, h, HostClass) - 1) : t[h + p - 1] = "."

AfterScheme(t, i) == IF IsAt(t, i, HTTPS) THEN i + Len(HTTPS) ELSE i + Len(HTTP)

(* C7: every candidate begins with "http://" or "https://" and has a host  *)
(* with an internal dot; so a text in which no scheme is followed by such  *)
(* a host (a scheme before a dotless host, a host name with no scheme) has *)
(* no candidate and is returned unchanged.                                 *)
C7_DotlessAndBareNotMatched ==
  Done =>
    /\ \A k \in 1..Len(log) :
         /\ StartsWithScheme(text, log[k].from)
         /\ HasInternalDot(text, AfterScheme(text, log[k].from))
    /\ (\A i \in 1..Len(text) :
          StartsWithScheme(text, i) => ~HasInternalDot(text, AfterScheme(text, i)))
         => (log = <<>> /\ out = [kind |-> "ok", val |-> text])

\* the text begins with the bare word twitter.com, which is left alone,
\* and a URL further on is matched
C7_Witness ==
  /\ Done
  /\ IsAt(text, 1, TWITTER_COM)
  /\ Len(log) = 1
  /\ log[1].from > Len(TWITTER_COM)
  /\ out = [kind |-> "ok", val |-> text]

\* the run of path characters after the scheme at i
PathRunAt(t, i) == RunLen(t, AfterScheme(t, i), PathClass)

\* C9 as stated: scheme, host with an internal dot, zero or more characters
CandidateAsStated(t, i) ==
  /\ StartsWithScheme(t, i)
  /\ HasInternalDot(t, AfterScheme(t, i))

\* C9 as amended: an internal dot that at least two characters follow
CandidateAsAmended(t, i) ==
  /\ StartsWithScheme(t, i)
  /\ \E p \in 2..(RunLen(t, AfterScheme(t, i), HostClass) - 1) :
       /\ t[AfterScheme(t, i) + p - 1] = "."
       /\ p + 2 <= PathRunAt(t, i)

\* the spans of a left-to-right scan that takes, at each candidate, the
\* whole run of path characters and resumes after it
RECURSIVE ScanAsStated(_, _)
ScanAsStated(t, i) ==
  IF i > Len(t) THEN <<>>
  ELSE IF CandidateAsStated(t, i)
  THEN <<[from |-> i, to |-> AfterScheme(t, i) + PathRunAt(t, i) - 1]>>
         \o ScanAsStated(t, AfterScheme(t, i) + PathRunAt(t, i))
  ELSE ScanAsStated(t, i + 1)

RECURSIVE ScanAsAmended(_, _)
ScanAsAmended(t, i) ==
  IF i > Len(t) THEN <<>>
  ELSE IF CandidateAsAmended(t, i)
  THEN <<[from |-> i, to |-> AfterScheme(t, i) + PathRunAt(t, i) - 1]>>
         \o ScanAsAmended(t, AfterScheme(t, i) + PathRunAt(t, i))
  ELSE ScanAsAmended(t, i + 1)

\* the spans the replacer was called with
LogSpans == [k \in 1..Len(log) |-> [from |-> log[k].from, to |-> log[k].to]]

\* the calls are those of the scan, all of them unless a call threw
LogFollows(scan) ==
  /\ Len(log) <= Len(scan)
  /\ LogSpans = SubSeq(scan, 1, Len(log))
  /\ out.kind = "ok" => Len(log) = Len(scan)

(* C9 as stated: the candidates are exactly the maximal runs that begin    *)
(* with a scheme and a host with an internal dot, followed by zero or more *)
(* path characters.                                                        *)
C9_ScannerAsStated == Done => LogFollows(ScanAsStated(text, 1))

(* C9 as amended: the candidates are exactly the maximal runs that begin   *)
(* with a scheme and a host with an internal dot that at least two more    *)
(* characters of the run follow: the last term of the pattern takes one or *)
(* more characters, which the end of the host may supply.                  *)
C9_ScannerAsAmended == Done => LogFollows(ScanAsAmended(text, 1))

\* a scheme and a dotted host with nothing after it was a candidate, and
\* the scan went on to a second one
C9_Witness ==
  /\ Done
  /\ Len(log) = 2
  /\ AfterAuthority(log[1].url0) = <<>>
  /\ \A i \in 1..Len(AuthorityOf(log[1].url0)) :
       AuthorityOf(log[1].url0)[i] \in HostClass

-----------------------------------------------------------------------------
(* C8: calls of substituteUrls are independent: two calls on the same text *)
(* give the same outcome, whatever calls (of it, or of the handler's       *)
(* rewriter, returning or throwing) came before or between them, and no    *)
(* call leaves URL_REGEX.lastIndex changed.                                *)
C8_Stateless ==
  /\ lastIndex = 0
  /\ \A i, j \in 1..Len(hist) :
       hist[i].text = hist[j].text => hist[i].result = hist[j].result

\* the same text was rewritten twice with a throwing call in between,
\* while the handler's rewriter had thrown as well
C8_Witness ==
  /\ Len(hist) = 3
  /\ hist[1].text = hist[3].text
  /\ hist[1].result.kind = "ok"
  /\ hist[1].result.val # hist[1].text
  /\ hist[2].result.kind = "throw"
  /\ pc = "responded"
  /\ calls = 1
  /\ resp = Rejected

\* the request fails header validation
FailsValidation(r) ==
  r.method # "POST" \/ r.authorization = Missing \/ r.contentType = Missing

\* the request carries the configured token
HasToken(r) == r.authorization = "Token " \o TOKEN

====
